---- MODULE Spec2Model ----
(***************************************************************************)
(* RBAC_SYSTEM: the grant store (users, roles, permissions, user_roles,    *)
(* role_permissions), the four enforcement gates of middleware/auth.js and *)
(* the route handlers that change the grants.  A request is served as one  *)
(* step: authenticateToken, the route's gate, then the handler.            *)
(***************************************************************************)
EXTENDS Integers, Sequences, FiniteSets, TLC

\* ---------------------------------------------------------------- bounds
MaxUsers == 2      \* user ids 1..MaxUsers (AUTO_INCREMENT stops there)
MaxOps   == 3      \* requests that change the store
MaxTime  == 1      \* the clock runs 0..MaxTime
MaxList  == 2      \* longest list handed to checkAnyPermission / checkAnyRole
MaxNewRoles == 1   \* roles created through POST /api/roles that exist at a time
MaxPending == 2    \* handlers in flight between their checks and their write
MaxNewPermissions == 2    \* permission rows created beyond the seed
MaxRequests == 2   \* requests of the api client that are under way together

\* ------------------------------------------------------------- constants
NULL   == -1       \* SQL NULL / JS null in an integer column
NoUser == 0        \* req.user is undefined

UserIds == 1..MaxUsers
\* expiresAt of a request body: absent, or an ISO date (any date, past or future)
ExpiresInputs == {NULL} \cup (0..(MaxTime - 1))

\* ------------------------------------------------------------- seed data
defaultRoles == <<"super_admin", "admin", "manager", "user", "guest">>

\* the permissions the modelled routes and probes use, in seed order
defaultPermissions ==
  << [name |-> "users:read",   resource |-> "users",   action |-> "read"],
     [name |-> "users:update", resource |-> "users",   action |-> "update"],
     [name |-> "audit:read",   resource |-> "audit",   action |-> "read"],
     [name |-> "system:update", resource |-> "system", action |-> "update"],
     [name |-> "profile:read", resource |-> "profile", action |-> "read"] >>

rolePermissions ==
  [r \in {"super_admin", "admin", "manager", "user", "guest"} |->
     CASE r = "super_admin" -> {"users:read", "users:update", "audit:read", "system:update",
                                "profile:read"}
       [] r = "admin"       -> {"users:read", "users:update", "audit:read", "profile:read"}
       [] r = "manager"     -> {"users:read", "users:update", "audit:read", "profile:read"}
       [] r = "user"        -> {"profile:read"}
       [] r = "guest"       -> {"profile:read"}]

RoleIds       == 1..Len(defaultRoles)
PermissionIds == 1..Len(defaultPermissions)

\* ----------------------------------------------------------------- state
VARIABLES
  users,             \* rows of table users: [id, is_active]
  roles,             \* rows of table roles: [id, name, is_active]
  permissions,       \* rows of table permissions: [id, name, resource, action, is_active]
  user_roles,        \* rows of table user_roles
  role_permissions,  \* rows of table role_permissions
  userSeq,           \* AUTO_INCREMENT of users.id
  now,               \* wall clock
  nops,              \* requests that changed the store so far
  pending,           \* handlers that have run their checks and not yet their write
  client,            \* the browser: localStorage and the requests of the api client
  last               \* what the last request was and how it ended

store == <<users, roles, permissions, user_roles, role_permissions, userSeq>>
vars  == <<users, roles, permissions, user_roles, role_permissions, userSeq, now, nops,
           pending, client, last>>

\* a request of the api client before it is sent
ClientRequest ==
  [phase |-> "idle", retry |-> FALSE, refreshes |-> 0, sends |-> 0, status |-> 0,
   refresh |-> "none"]

\* the browser with or without a token in localStorage
Browser(token) ==
  [token |-> token, redirected |-> FALSE,
   requests |-> [i \in 1..MaxRequests |-> ClientRequest]]

\* ------------------------------------------------------------ the schema
\* a new row: is_active DEFAULT TRUE
UserRole(userId, roleId, assignedBy, expiresAt) ==
  [user_id |-> userId, role_id |-> roleId, assigned_by |-> assignedBy,
   expires_at |-> expiresAt, is_active |-> TRUE]

RolePermission(roleId, permissionId, grantedBy, expiresAt) ==
  [role_id |-> roleId, permission_id |-> permissionId, granted_by |-> grantedBy,
   expires_at |-> expiresAt, is_active |-> TRUE]

\* ---------------------------------------------------------- setupDatabase
setupRoles ==
  {[id |-> i, name |-> defaultRoles[i], is_active |-> TRUE] : i \in RoleIds}

setupPermissions ==
  {[id |-> i, name |-> defaultPermissions[i].name,
    resource |-> defaultPermissions[i].resource,
    action |-> defaultPermissions[i].action, is_active |-> TRUE] : i \in PermissionIds}

setupRolePermissions ==
  {RolePermission(r.id, p.id, NULL, NULL) :
     <<r, p>> \in {<<r, p>> \in setupRoles \X setupPermissions :
                     p.name \in rolePermissions[r.name]}}

\* the default admin user is user 1 and holds super_admin
setupUserRoles ==
  {UserRole(1, r.id, NULL, NULL) : r \in {r \in setupRoles : r.name = "super_admin"}}

\* ------------------------------------------------------ the gates' answer
Denied(status, code, required, queried, logged) ==
  [status |-> status, code |-> code, required |-> required,
   nextCalls |-> 0, responses |-> 1, queried |-> queried, logged |-> logged]

Passed ==
  [status |-> 0, code |-> "", required |-> <<>>,
   nextCalls |-> 1, responses |-> 0, queried |-> TRUE, logged |-> FALSE]

\* PermissionQuery without "AND p.is_active = TRUE"
PermissionQueryAnyPermission(userId, conds) ==
  {p \in permissions :
     \E rp \in role_permissions, ur \in user_roles :
        /\ p.id = rp.permission_id
        /\ rp.role_id = ur.role_id
        /\ ur.user_id = userId
        /\ ur.is_active
        /\ rp.is_active
        /\ \E i \in 1..Len(conds) :
              p.resource = conds[i].resource /\ p.action = conds[i].action}

\* PermissionQuery without "ur.user_id = ?"
PermissionQueryAnyUser(userId, conds) ==
  {p \in permissions :
     \E rp \in role_permissions, ur \in user_roles :
        /\ p.id = rp.permission_id
        /\ rp.role_id = ur.role_id
        /\ ur.is_active
        /\ rp.is_active
        /\ p.is_active
        /\ \E i \in 1..Len(conds) :
              p.resource = conds[i].resource /\ p.action = conds[i].action}

\* PermissionQuery with "AND ur.expires_at > NOW()", which no NULL passes
PermissionQueryNullExpired(userId, conds) ==
  {p \in permissions :
     \E rp \in role_permissions, ur \in user_roles :
        /\ p.id = rp.permission_id
        /\ rp.role_id = ur.role_id
        /\ ur.user_id = userId
        /\ ur.is_active
        /\ ur.expires_at # NULL /\ ur.expires_at > now
        /\ rp.is_active
        /\ p.is_active
        /\ \E i \in 1..Len(conds) :
              p.resource = conds[i].resource /\ p.action = conds[i].action}

\* PermissionQuery that joins a single role of the user, the one with the
\* highest id
PermissionQueryLastRole(userId, conds) ==
  {p \in permissions :
     \E rp \in role_permissions, ur \in user_roles :
        /\ p.id = rp.permission_id
        /\ rp.role_id = ur.role_id
        /\ ur.user_id = userId
        /\ \A other \in user_roles : other.user_id = userId => ur.role_id >= other.role_id
        /\ ur.is_active
        /\ rp.is_active
        /\ p.is_active
        /\ \E i \in 1..Len(conds) :
              p.resource = conds[i].resource /\ p.action = conds[i].action}

\* PermissionQuery answered from a copy of role_permissions taken at start-up
\* and only ever added to: a revoked seed grant is still in it
PermissionQueryCached(userId, conds) ==
  {p \in permissions :
     \E rp \in role_permissions \cup setupRolePermissions, ur \in user_roles :
        /\ p.id = rp.permission_id
        /\ rp.role_id = ur.role_id
        /\ ur.user_id = userId
        /\ ur.is_active
        /\ rp.is_active
        /\ p.is_active
        /\ \E i \in 1..Len(conds) :
              p.resource = conds[i].resource /\ p.action = conds[i].action}

\* the SELECT of checkPermission and checkAnyPermission
PermissionQuery(userId, conds) ==
  {p \in permissions :
     \E rp \in role_permissions, ur \in user_roles :
        /\ p.id = rp.permission_id
        /\ rp.role_id = ur.role_id
        /\ ur.user_id = userId
        /\ ur.is_active
        /\ rp.is_active
        /\ p.is_active
        /\ \E i \in 1..Len(conds) :
              p.resource = conds[i].resource /\ p.action = conds[i].action}

\* the SELECT of checkRole and checkAnyRole
RoleQuery(userId, names) ==
  {r \in roles :
     \E ur \in user_roles :
        /\ r.id = ur.role_id
        /\ ur.user_id = userId
        /\ ur.is_active
        /\ r.is_active
        /\ \E i \in 1..Len(names) : r.name = names[i]}

\* "(p.resource = ? AND p.action = ?)" joined by " OR ": with no element the
\* statement reads "AND ()", which the server refuses to prepare
permissionConditions(perms) == Len(perms)
\* "r.name IN (?,?)": with no element it reads "IN ()"
roleNamePlaceholders(names) == Len(names)

checkPermission(user, resource, action, dbOk) ==
  LET cond == <<[resource |-> resource, action |-> action]>> IN
  IF user = NoUser
    THEN Denied(401, "AUTH_REQUIRED", <<>>, FALSE, FALSE)
  ELSE IF ~dbOk
    THEN Denied(500, "PERMISSION_ERROR", <<>>, TRUE, FALSE)
  ELSE IF PermissionQuery(user, cond) = {}
    THEN Denied(403, "PERMISSION_DENIED", cond, TRUE, TRUE)
  ELSE Passed

\* checkAnyPermission without the "if (!req.user)" block: the query is run
\* with an undefined bind parameter and throws
checkAnyPermissionNoAuthCheck(user, perms, dbOk) ==
  IF user = NoUser \/ ~dbOk \/ Len(perms) = 0
    THEN Denied(500, "PERMISSION_ERROR", <<>>, TRUE, FALSE)
  ELSE IF PermissionQuery(user, perms) = {}
    THEN Denied(403, "PERMISSION_DENIED", perms, TRUE, TRUE)
  ELSE Passed

checkAnyPermission(user, perms, dbOk) ==
  IF user = NoUser
    THEN Denied(401, "AUTH_REQUIRED", <<>>, FALSE, FALSE)
  ELSE IF ~dbOk \/ permissionConditions(perms) = 0
    THEN Denied(500, "PERMISSION_ERROR", <<>>, TRUE, FALSE)
  ELSE IF PermissionQuery(user, perms) = {}
    THEN Denied(403, "PERMISSION_DENIED", perms, TRUE, TRUE)
  ELSE Passed

\* checkRole whose 403 branch lacks "return": next() runs after the response
checkRoleFallsThrough(user, roleName, dbOk) ==
  IF user = NoUser
    THEN Denied(401, "AUTH_REQUIRED", <<>>, FALSE, FALSE)
  ELSE IF ~dbOk
    THEN Denied(500, "ROLE_ERROR", <<>>, TRUE, FALSE)
  ELSE IF RoleQuery(user, <<roleName>>) = {}
    THEN [Denied(403, "ROLE_DENIED", <<roleName>>, TRUE, TRUE) EXCEPT !.nextCalls = 1]
  ELSE Passed

checkRole(user, roleName, dbOk) ==
  IF user = NoUser
    THEN Denied(401, "AUTH_REQUIRED", <<>>, FALSE, FALSE)
  ELSE IF ~dbOk
    THEN Denied(500, "ROLE_ERROR", <<>>, TRUE, FALSE)
  ELSE IF RoleQuery(user, <<roleName>>) = {}
    THEN Denied(403, "ROLE_DENIED", <<roleName>>, TRUE, TRUE)
  ELSE Passed

checkAnyRole(user, roleNames, dbOk) ==
  IF user = NoUser
    THEN Denied(401, "AUTH_REQUIRED", <<>>, FALSE, FALSE)
  ELSE IF ~dbOk \/ roleNamePlaceholders(roleNames) = 0
    THEN Denied(500, "ROLE_ERROR", <<>>, TRUE, FALSE)
  ELSE IF RoleQuery(user, roleNames) = {}
    THEN Denied(403, "ROLE_DENIED", roleNames, TRUE, TRUE)
  ELSE Passed

requireAdmin(user) == checkRole(user, "admin", TRUE)

\* authenticateToken without the test of users[0].is_active
authenticateTokenAnyUser(tokenUser) ==
  IF \E u \in users : u.id = tokenUser THEN tokenUser ELSE NoUser

\* req.user after authenticateToken for a token issued to tokenUser
authenticateToken(tokenUser) ==
  IF \E u \in users : u.id = tokenUser /\ u.is_active THEN tokenUser ELSE NoUser

\* ------------------------------------------------------------- requests
\* no request was served by this step
NoResponse ==
  [status |-> 0, code |-> "", required |-> <<>>,
   nextCalls |-> 0, responses |-> 0, queried |-> FALSE, logged |-> FALSE]

\* a handler's response; the gate in front of it called next()
Responded(status, code) ==
  [status |-> status, code |-> code, required |-> <<>>,
   nextCalls |-> 1, responses |-> 1, queried |-> TRUE, logged |-> FALSE]

Request(op, user, pairs, names, dbOk, out) ==
  [op |-> op, user |-> user, pairs |-> pairs, names |-> names, dbOk |-> dbOk, out |-> out,
   audit |-> <<>>]

\* a route request by the holder of a token for tokenUser: authenticateToken,
\* then the gate; Proceed is what the handler does once both let it through
Route(op, tokenUser, gate, Proceed) ==
  IF authenticateToken(tokenUser) = NoUser
    THEN /\ last' = Request(op, tokenUser, <<>>, <<>>, TRUE,
                            Denied(401, "USER_INVALID", <<>>, TRUE, FALSE))
         /\ UNCHANGED <<store, nops>>
  ELSE IF gate.nextCalls = 0
    THEN /\ last' = Request(op, tokenUser, <<>>, <<>>, TRUE, gate)
         /\ UNCHANGED <<store, nops>>
  ELSE Proceed

Refuse(op, tokenUser, status, code) ==
  /\ last' = Request(op, tokenUser, <<>>, <<>>, TRUE, Responded(status, code))
  /\ UNCHANGED <<store, nops>>

\* the handler changed the store, wrote its audit record (logger.logAudit:
\* resource id, then the ids in the details) and answered
Done(op, tokenUser, status, audit) ==
  /\ last' = [Request(op, tokenUser, <<>>, <<>>, TRUE, Responded(status, ""))
                EXCEPT !.audit = audit]
  /\ nops' = nops + 1

\* POST /api/auth/register
Register ==
  /\ userSeq < MaxUsers
  /\ userSeq' = userSeq + 1
  /\ users' = users \cup {[id |-> userSeq + 1, is_active |-> TRUE]}
  /\ last' = Request("register", NoUser, <<>>, <<>>, TRUE, Responded(201, ""))
  /\ UNCHANGED <<roles, permissions, user_roles, role_permissions, now, nops, pending, client>>

\* AssignRole as an upsert: an existing grant is overwritten by the new one
AssignRoleUpsert(c, userId, roleId, expiresAt) ==
  /\ nops < MaxOps
  /\ UNCHANGED <<now, pending, client>>
  /\ Route("assignRole", c, checkPermission(authenticateToken(c), "users", "update", TRUE),
       IF ~\E u \in users : u.id = userId
         THEN Refuse("assignRole", c, 404, "USER_NOT_FOUND")
       ELSE IF ~\E r \in roles : r.id = roleId /\ r.is_active
         THEN Refuse("assignRole", c, 404, "ROLE_NOT_FOUND")
       ELSE /\ user_roles' =
                 {ur \in user_roles : ~(ur.user_id = userId /\ ur.role_id = roleId)}
                   \cup {UserRole(userId, roleId, c, expiresAt)}
            /\ UNCHANGED <<users, roles, permissions, role_permissions, userSeq>>
            /\ Done("assignRole", c, 201, <<userId, roleId>>))

\* POST /api/users/:id/roles
AssignRole(c, userId, roleId, expiresAt) ==
  /\ nops < MaxOps
  /\ UNCHANGED <<now, pending, client>>
  /\ Route("assignRole", c, checkPermission(authenticateToken(c), "users", "update", TRUE),
       IF ~\E u \in users : u.id = userId
         THEN Refuse("assignRole", c, 404, "USER_NOT_FOUND")
       ELSE IF ~\E r \in roles : r.id = roleId /\ r.is_active
         THEN Refuse("assignRole", c, 404, "ROLE_NOT_FOUND")
       ELSE IF \E ur \in user_roles : ur.user_id = userId /\ ur.role_id = roleId
         THEN Refuse("assignRole", c, 400, "ROLE_ALREADY_ASSIGNED")
       ELSE /\ user_roles' = user_roles \cup {UserRole(userId, roleId, c, expiresAt)}
            /\ UNCHANGED <<users, roles, permissions, role_permissions, userSeq>>
            /\ Done("assignRole", c, 201, <<userId, roleId>>))

\* RemoveRole without the SELECT: the DELETE runs whether or not there is a
\* row, and the handler answers 200
RemoveRoleUnchecked(c, userId, roleId) ==
  /\ nops < MaxOps
  /\ UNCHANGED <<now, pending, client>>
  /\ Route("removeRole", c, checkPermission(authenticateToken(c), "users", "update", TRUE),
       /\ user_roles' = {ur \in user_roles :
                           ~(ur.user_id = userId /\ ur.role_id = roleId)}
       /\ UNCHANGED <<users, roles, permissions, role_permissions, userSeq>>
       /\ Done("removeRole", c, 200, <<userId, roleId>>))

\* DELETE /api/users/:id/roles/:roleId
RemoveRole(c, userId, roleId) ==
  /\ nops < MaxOps
  /\ UNCHANGED <<now, pending, client>>
  /\ Route("removeRole", c, checkPermission(authenticateToken(c), "users", "update", TRUE),
       IF ~\E ur \in user_roles : ur.user_id = userId /\ ur.role_id = roleId
         THEN Refuse("removeRole", c, 404, "ASSIGNMENT_NOT_FOUND")
       ELSE /\ user_roles' = {ur \in user_roles :
                                ~(ur.user_id = userId /\ ur.role_id = roleId)}
            /\ UNCHANGED <<users, roles, permissions, role_permissions, userSeq>>
            /\ Done("removeRole", c, 200, <<userId, roleId>>))

\* POST /api/roles/:id/permissions
AssignPermission(c, roleId, permissionId, expiresAt) ==
  /\ nops < MaxOps
  /\ UNCHANGED <<now, pending, client>>
  /\ Route("assignPermission", c, requireAdmin(authenticateToken(c)),
       IF ~\E r \in roles : r.id = roleId /\ r.is_active
         THEN Refuse("assignPermission", c, 404, "ROLE_NOT_FOUND")
       ELSE IF ~\E p \in permissions : p.id = permissionId /\ p.is_active
         THEN Refuse("assignPermission", c, 404, "PERMISSION_NOT_FOUND")
       ELSE IF \E rp \in role_permissions :
                 rp.role_id = roleId /\ rp.permission_id = permissionId
         THEN Refuse("assignPermission", c, 400, "PERMISSION_ALREADY_ASSIGNED")
       ELSE /\ role_permissions' =
                 role_permissions \cup {RolePermission(roleId, permissionId, c, expiresAt)}
            /\ UNCHANGED <<users, roles, permissions, user_roles, userSeq>>
            /\ Done("assignPermission", c, 201, <<roleId, permissionId>>))

\* DELETE /api/roles/:id/permissions/:permissionId
RemovePermission(c, roleId, permissionId) ==
  /\ nops < MaxOps
  /\ UNCHANGED <<now, pending, client>>
  /\ Route("removePermission", c, requireAdmin(authenticateToken(c)),
       IF ~\E rp \in role_permissions :
               rp.role_id = roleId /\ rp.permission_id = permissionId
         THEN Refuse("removePermission", c, 404, "ASSIGNMENT_NOT_FOUND")
       ELSE /\ role_permissions' =
                 {rp \in role_permissions :
                    ~(rp.role_id = roleId /\ rp.permission_id = permissionId)}
            /\ UNCHANGED <<users, roles, permissions, user_roles, userSeq>>
            /\ Done("removePermission", c, 200, <<roleId, permissionId>>))

systemRoles == {"admin", "super_admin", "user"}
systemPermissions == {"users:read", "users:update", "roles:read", "permissions:read"}

setRoleActive(roleId, flag) ==
  {IF r.id = roleId THEN [r EXCEPT !.is_active = flag] ELSE r : r \in roles}

setPermissionActive(permissionId, flag) ==
  {IF p.id = permissionId THEN [p EXCEPT !.is_active = flag] ELSE p : p \in permissions}

\* PATCH /api/roles/:id/deactivate
DeactivateRole(c, roleId) ==
  /\ nops < MaxOps
  /\ UNCHANGED <<now, pending, client>>
  /\ Route("deactivateRole", c, requireAdmin(authenticateToken(c)),
       IF ~\E r \in roles : r.id = roleId
         THEN Refuse("deactivateRole", c, 404, "ROLE_NOT_FOUND")
       ELSE IF \E r \in roles : r.id = roleId /\ r.name \in systemRoles
         THEN Refuse("deactivateRole", c, 400, "SYSTEM_ROLE_PROTECTED")
       ELSE /\ roles' = setRoleActive(roleId, FALSE)
            /\ UNCHANGED <<users, permissions, user_roles, role_permissions, userSeq>>
            /\ Done("deactivateRole", c, 200, <<roleId>>))

\* PATCH /api/roles/:id/activate
ActivateRole(c, roleId) ==
  /\ nops < MaxOps
  /\ UNCHANGED <<now, pending, client>>
  /\ Route("activateRole", c, requireAdmin(authenticateToken(c)),
       IF ~\E r \in roles : r.id = roleId
         THEN Refuse("activateRole", c, 404, "ROLE_NOT_FOUND")
       ELSE /\ roles' = setRoleActive(roleId, TRUE)
            /\ UNCHANGED <<users, permissions, user_roles, role_permissions, userSeq>>
            /\ Done("activateRole", c, 200, <<roleId>>))

\* PATCH /api/permissions/:id/deactivate
DeactivatePermission(c, permissionId) ==
  /\ nops < MaxOps
  /\ UNCHANGED <<now, pending, client>>
  /\ Route("deactivatePermission", c, requireAdmin(authenticateToken(c)),
       IF ~\E p \in permissions : p.id = permissionId
         THEN Refuse("deactivatePermission", c, 404, "PERMISSION_NOT_FOUND")
       ELSE IF \E p \in permissions : p.id = permissionId /\ p.name \in systemPermissions
         THEN Refuse("deactivatePermission", c, 400, "SYSTEM_PERMISSION_PROTECTED")
       ELSE /\ permissions' = setPermissionActive(permissionId, FALSE)
            /\ UNCHANGED <<users, roles, user_roles, role_permissions, userSeq>>
            /\ Done("deactivatePermission", c, 200, <<permissionId>>))

\* PATCH /api/permissions/:id/activate
ActivatePermission(c, permissionId) ==
  /\ nops < MaxOps
  /\ UNCHANGED <<now, pending, client>>
  /\ Route("activatePermission", c, requireAdmin(authenticateToken(c)),
       IF ~\E p \in permissions : p.id = permissionId
         THEN Refuse("activatePermission", c, 404, "PERMISSION_NOT_FOUND")
       ELSE /\ permissions' = setPermissionActive(permissionId, TRUE)
            /\ UNCHANGED <<users, roles, user_roles, role_permissions, userSeq>>
            /\ Done("activatePermission", c, 200, <<permissionId>>))

\* ------------------------------------------------ the gates on their own
\* what a gate is handed: req.user as authenticateToken left it, or nothing
\* when the gate is mounted without it
GateUsers == {NoUser} \cup {u.id : u \in users}

RECURSIVE SeqsUpTo(_, _)
SeqsUpTo(S, n) ==
  IF n = 0 THEN {<<>>}
  ELSE LET shorter == SeqsUpTo(S, n - 1)
       IN shorter \cup {Append(q, x) : <<q, x>> \in {q \in shorter : Len(q) = n - 1} \X S}

\* the (resource, action) pairs and role names the probes ask for
ProbePairs == {[resource |-> "users", action |-> "update"],
               [resource |-> "profile", action |-> "read"]}
ProbeRoles == {"admin", "guest"}

\* the role and permission ids the requests name: admin and guest,
\* users:update and profile:read
RoleInputs == {r.id : r \in {r \in setupRoles : r.name \in ProbeRoles}}
PermissionInputs ==
  {p.id : p \in {p \in setupPermissions :
                   [resource |-> p.resource, action |-> p.action] \in ProbePairs}}

\* the store answers the gate's query or fails it; without req.user no query is made
DbOutcomes(user) == IF user = NoUser THEN {TRUE} ELSE BOOLEAN

CheckPermissionReq(user, pair, dbOk) ==
  /\ last' = Request("checkPermission", user, <<pair>>, <<>>, dbOk,
                     checkPermission(user, pair.resource, pair.action, dbOk))
  /\ UNCHANGED <<store, now, nops, pending, client>>

CheckAnyPermissionReq(user, perms, dbOk) ==
  /\ last' = Request("checkAnyPermission", user, perms, <<>>, dbOk,
                     checkAnyPermission(user, perms, dbOk))
  /\ UNCHANGED <<store, now, nops, pending, client>>

CheckRoleReq(user, roleName, dbOk) ==
  /\ last' = Request("checkRole", user, <<>>, <<roleName>>, dbOk,
                     checkRole(user, roleName, dbOk))
  /\ UNCHANGED <<store, now, nops, pending, client>>

CheckAnyRoleReq(user, roleNames, dbOk) ==
  /\ last' = Request("checkAnyRole", user, <<>>, roleNames, dbOk,
                     checkAnyRole(user, roleNames, dbOk))
  /\ UNCHANGED <<store, now, nops, pending, client>>

\* time passes
Tick ==
  /\ now < MaxTime
  /\ now' = now + 1
  /\ last' = Request("tick", NoUser, <<>>, <<>>, TRUE, NoResponse)
  /\ UNCHANGED <<store, nops, pending, client>>

\* --------------------------------------------------------- specification
Init ==
  /\ users = {[id |-> 1, is_active |-> TRUE]}
  /\ roles = setupRoles
  /\ permissions = setupPermissions
  /\ user_roles = setupUserRoles
  /\ role_permissions = setupRolePermissions
  /\ userSeq = 1
  /\ now = 0
  /\ nops = 0
  /\ pending = {}
  /\ client = Browser(FALSE)
  /\ last = Request("setup", NoUser, <<>>, <<>>, TRUE, NoResponse)

Next ==
  \/ Register
  \/ Tick
  \/ \E c \in UserIds, userId \in UserIds, roleId \in RoleInputs, expiresAt \in ExpiresInputs :
        AssignRole(c, userId, roleId, expiresAt)
  \/ \E c \in UserIds, userId \in UserIds, roleId \in RoleInputs : RemoveRole(c, userId, roleId)
  \/ \E c \in UserIds, roleId \in RoleInputs, permissionId \in PermissionInputs,
        expiresAt \in ExpiresInputs : AssignPermission(c, roleId, permissionId, expiresAt)
  \/ \E c \in UserIds, roleId \in RoleInputs, permissionId \in PermissionInputs :
        RemovePermission(c, roleId, permissionId)
  \/ \E c \in UserIds, roleId \in RoleInputs : DeactivateRole(c, roleId)
  \/ \E c \in UserIds, roleId \in RoleInputs : ActivateRole(c, roleId)
  \/ \E c \in UserIds, permissionId \in PermissionInputs : DeactivatePermission(c, permissionId)
  \/ \E c \in UserIds, permissionId \in PermissionInputs : ActivatePermission(c, permissionId)
  \/ \E user \in GateUsers, pair \in ProbePairs :
     \E dbOk \in DbOutcomes(user) :
        CheckPermissionReq(user, pair, dbOk)
  \/ \E user \in GateUsers, perms \in SeqsUpTo(ProbePairs, MaxList) :
     \E dbOk \in DbOutcomes(user) :
        CheckAnyPermissionReq(user, perms, dbOk)
  \/ \E user \in GateUsers, roleName \in ProbeRoles :
     \E dbOk \in DbOutcomes(user) :
        CheckRoleReq(user, roleName, dbOk)
  \/ \E user \in GateUsers, roleNames \in SeqsUpTo(ProbeRoles, MaxList) :
     \E dbOk \in DbOutcomes(user) :
        CheckAnyRoleReq(user, roleNames, dbOk)

Spec == Init /\ [][Next]_vars

\* ------------------------------------------------------ the user accounts
\* req.user.permissions?.some(...) of GET /api/users/:id and
\* req.user.roles?.some(...) of GET /api/audit/user/:userId: authenticateToken
\* sets req.user to the users row, which has neither property, so the
\* optional chain yields undefined
reqUserHasAny(c) == FALSE

\* GET /api/users/:id
GetUser(c, userId) ==
  /\ UNCHANGED <<now, pending, client>>
  /\ Route("getUser", c, checkPermission(authenticateToken(c), "users", "read", TRUE),
       IF c # userId /\ ~reqUserHasAny(c)
         THEN Refuse("getUser", c, 403, "ACCESS_DENIED")
       ELSE IF ~\E u \in users : u.id = userId
         THEN Refuse("getUser", c, 404, "USER_NOT_FOUND")
       ELSE Refuse("getUser", c, 200, ""))

\* GET /api/audit/user/:userId
GetUserAudit(c, userId) ==
  /\ UNCHANGED <<now, pending, client>>
  /\ Route("getUserAudit", c, checkPermission(authenticateToken(c), "audit", "read", TRUE),
       IF c # userId /\ ~reqUserHasAny(c)
         THEN Refuse("getUserAudit", c, 403, "ACCESS_DENIED")
       ELSE Refuse("getUserAudit", c, 200, ""))

\* isActive of the body of PUT /api/users/:id: absent, or a boolean
IsActiveInputs == {"undefined", "true", "false"}

\* PUT /api/users/:id; hasName: the body carries firstName
UpdateUser(c, userId, hasName, isActive) ==
  /\ nops < MaxOps
  /\ UNCHANGED <<now, pending, client>>
  /\ Route("updateUser", c, checkPermission(authenticateToken(c), "users", "update", TRUE),
       IF ~\E u \in users : u.id = userId
         THEN Refuse("updateUser", c, 404, "USER_NOT_FOUND")
       ELSE IF ~hasName /\ isActive = "undefined"
         THEN Refuse("updateUser", c, 400, "NO_UPDATE_FIELDS")
       ELSE /\ users' = {IF u.id = userId /\ isActive # "undefined"
                           THEN [u EXCEPT !.is_active = (isActive = "true")]
                           ELSE u : u \in users}
            /\ UNCHANGED <<roles, permissions, user_roles, role_permissions, userSeq>>
            /\ Done("updateUser", c, 200, <<userId>>))

setUserActive(userId, flag) ==
  {IF u.id = userId THEN [u EXCEPT !.is_active = flag] ELSE u : u \in users}

\* PATCH /api/users/:id/deactivate
DeactivateUser(c, userId) ==
  /\ nops < MaxOps
  /\ UNCHANGED <<now, pending, client>>
  /\ Route("deactivateUser", c, requireAdmin(authenticateToken(c)),
       IF ~\E u \in users : u.id = userId
         THEN Refuse("deactivateUser", c, 404, "USER_NOT_FOUND")
       ELSE IF userId = c
         THEN Refuse("deactivateUser", c, 400, "SELF_DEACTIVATION")
       ELSE /\ users' = setUserActive(userId, FALSE)
            /\ UNCHANGED <<roles, permissions, user_roles, role_permissions, userSeq>>
            /\ Done("deactivateUser", c, 200, <<userId>>))

\* PATCH /api/users/:id/activate
ActivateUser(c, userId) ==
  /\ nops < MaxOps
  /\ UNCHANGED <<now, pending, client>>
  /\ Route("activateUser", c, requireAdmin(authenticateToken(c)),
       IF ~\E u \in users : u.id = userId
         THEN Refuse("activateUser", c, 404, "USER_NOT_FOUND")
       ELSE /\ users' = setUserActive(userId, TRUE)
            /\ UNCHANGED <<roles, permissions, user_roles, role_permissions, userSeq>>
            /\ Done("activateUser", c, 200, <<userId>>))

\* ON DELETE SET NULL of assigned_by / granted_by
setNullBy(rows, field, userId) ==
  {IF row[field] = userId THEN [row EXCEPT ![field] = NULL] ELSE row : row \in rows}

\* DeleteUser on a user_roles table without ON DELETE CASCADE for user_id
DeleteUserKeepsGrants(c, userId) ==
  /\ nops < MaxOps
  /\ UNCHANGED <<now, pending, client>>
  /\ Route("deleteUser", c, requireAdmin(authenticateToken(c)),
       IF ~\E u \in users : u.id = userId
         THEN Refuse("deleteUser", c, 404, "USER_NOT_FOUND")
       ELSE IF userId = c
         THEN Refuse("deleteUser", c, 400, "SELF_DELETION")
       ELSE /\ users' = {u \in users : u.id # userId}
            /\ user_roles' = setNullBy(user_roles, "assigned_by", userId)
            /\ role_permissions' = setNullBy(role_permissions, "granted_by", userId)
            /\ UNCHANGED <<roles, permissions, userSeq>>
            /\ Done("deleteUser", c, 200, <<userId>>))

\* DELETE /api/users/:id; the user's grants go with the row (ON DELETE CASCADE)
DeleteUser(c, userId) ==
  /\ nops < MaxOps
  /\ UNCHANGED <<now, pending, client>>
  /\ Route("deleteUser", c, requireAdmin(authenticateToken(c)),
       IF ~\E u \in users : u.id = userId
         THEN Refuse("deleteUser", c, 404, "USER_NOT_FOUND")
       ELSE IF userId = c
         THEN Refuse("deleteUser", c, 400, "SELF_DELETION")
       ELSE /\ users' = {u \in users : u.id # userId}
            /\ user_roles' = setNullBy({ur \in user_roles : ur.user_id # userId},
                                       "assigned_by", userId)
            /\ role_permissions' = setNullBy(role_permissions, "granted_by", userId)
            /\ UNCHANGED <<roles, permissions, userSeq>>
            /\ Done("deleteUser", c, 200, <<userId>>))

\* the store once the seeded administrator, who holds super_admin only, has
\* given itself the admin role that requireAdmin asks for
InitAdmin ==
  /\ users = {[id |-> 1, is_active |-> TRUE]}
  /\ roles = setupRoles
  /\ permissions = setupPermissions
  /\ user_roles = setupUserRoles \cup
        {UserRole(1, r.id, 1, NULL) : r \in {r \in setupRoles : r.name = "admin"}}
  /\ role_permissions = setupRolePermissions
  /\ userSeq = 1
  /\ now = 0
  /\ nops = 0
  /\ pending = {}
  /\ client = Browser(FALSE)
  /\ last = Request("setup", NoUser, <<>>, <<>>, TRUE, NoResponse)

NextAccounts ==
  \/ Register
  \/ \E c \in UserIds, userId \in UserIds, roleId \in RoleInputs :
       AssignRole(c, userId, roleId, NULL)
  \/ \E c \in UserIds, userId \in UserIds : GetUser(c, userId)
  \/ \E c \in UserIds, userId \in UserIds : GetUserAudit(c, userId)
  \/ \E c \in UserIds, userId \in UserIds, hasName \in BOOLEAN, isActive \in IsActiveInputs :
       UpdateUser(c, userId, hasName, isActive)
  \/ \E c \in UserIds, userId \in UserIds : DeactivateUser(c, userId)
  \/ \E c \in UserIds, userId \in UserIds : ActivateUser(c, userId)
  \/ \E c \in UserIds, userId \in UserIds : DeleteUser(c, userId)

SpecAccounts == InitAdmin /\ [][NextAccounts]_vars

\* ------------------------------------------- deleting roles and permissions
\* DeletePermission without the SELECT COUNT(*) on role_permissions
DeletePermissionUnchecked(c, permissionId) ==
  /\ UNCHANGED <<now, pending, client>>
  /\ Route("deletePermission", c, requireAdmin(authenticateToken(c)),
       IF ~\E p \in permissions : p.id = permissionId
         THEN Refuse("deletePermission", c, 404, "PERMISSION_NOT_FOUND")
       ELSE IF \E p \in permissions : p.id = permissionId /\ p.name \in systemPermissions
         THEN Refuse("deletePermission", c, 400, "SYSTEM_PERMISSION_PROTECTED")
       ELSE /\ nops < MaxOps
            /\ permissions' = {p \in permissions : p.id # permissionId}
            /\ role_permissions' =
                 {rp \in role_permissions : rp.permission_id # permissionId}
            /\ UNCHANGED <<users, roles, user_roles, userSeq>>
            /\ Done("deletePermission", c, 200, <<permissionId>>))

\* DeletePermission that looks for grants before it looks at the name
DeletePermissionUseFirst(c, permissionId) ==
  /\ UNCHANGED <<now, pending, client>>
  /\ Route("deletePermission", c, requireAdmin(authenticateToken(c)),
       IF ~\E p \in permissions : p.id = permissionId
         THEN Refuse("deletePermission", c, 404, "PERMISSION_NOT_FOUND")
       ELSE IF \E rp \in role_permissions : rp.permission_id = permissionId
         THEN Refuse("deletePermission", c, 400, "PERMISSION_IN_USE")
       ELSE IF \E p \in permissions : p.id = permissionId /\ p.name \in systemPermissions
         THEN Refuse("deletePermission", c, 400, "SYSTEM_PERMISSION_PROTECTED")
       ELSE /\ nops < MaxOps
            /\ permissions' = {p \in permissions : p.id # permissionId}
            /\ role_permissions' =
                 {rp \in role_permissions : rp.permission_id # permissionId}
            /\ UNCHANGED <<users, roles, user_roles, userSeq>>
            /\ Done("deletePermission", c, 200, <<permissionId>>))

\* DELETE /api/permissions/:id; DELETE FROM permissions takes the grants
\* that reference the row with it (ON DELETE CASCADE)
DeletePermission(c, permissionId) ==
  /\ UNCHANGED <<now, pending, client>>
  /\ Route("deletePermission", c, requireAdmin(authenticateToken(c)),
       IF ~\E p \in permissions : p.id = permissionId
         THEN Refuse("deletePermission", c, 404, "PERMISSION_NOT_FOUND")
       ELSE IF \E p \in permissions : p.id = permissionId /\ p.name \in systemPermissions
         THEN Refuse("deletePermission", c, 400, "SYSTEM_PERMISSION_PROTECTED")
       ELSE IF \E rp \in role_permissions : rp.permission_id = permissionId
         THEN Refuse("deletePermission", c, 400, "PERMISSION_IN_USE")
       ELSE /\ nops < MaxOps
            /\ permissions' = {p \in permissions : p.id # permissionId}
            /\ role_permissions' =
                 {rp \in role_permissions : rp.permission_id # permissionId}
            /\ UNCHANGED <<users, roles, user_roles, userSeq>>
            /\ Done("deletePermission", c, 200, <<permissionId>>))

\* DeleteRole with the protection tied to the seeded row instead of the
\* current name
DeleteRoleSeedProtected(c, roleId) ==
  /\ UNCHANGED <<now, pending, client>>
  /\ Route("deleteRole", c, requireAdmin(authenticateToken(c)),
       IF ~\E r \in roles : r.id = roleId
         THEN Refuse("deleteRole", c, 404, "ROLE_NOT_FOUND")
       ELSE IF \E r \in setupRoles : r.id = roleId /\ r.name \in systemRoles
         THEN Refuse("deleteRole", c, 400, "SYSTEM_ROLE_PROTECTED")
       ELSE IF \E ur \in user_roles : ur.role_id = roleId
         THEN Refuse("deleteRole", c, 400, "ROLE_IN_USE")
       ELSE /\ nops < MaxOps
            /\ roles' = {r \in roles : r.id # roleId}
            /\ user_roles' = {ur \in user_roles : ur.role_id # roleId}
            /\ role_permissions' = {rp \in role_permissions : rp.role_id # roleId}
            /\ UNCHANGED <<users, permissions, userSeq>>
            /\ Done("deleteRole", c, 200, <<roleId>>))

\* DELETE /api/roles/:id; DELETE FROM roles takes the role's grants with it
DeleteRole(c, roleId) ==
  /\ UNCHANGED <<now, pending, client>>
  /\ Route("deleteRole", c, requireAdmin(authenticateToken(c)),
       IF ~\E r \in roles : r.id = roleId
         THEN Refuse("deleteRole", c, 404, "ROLE_NOT_FOUND")
       ELSE IF \E r \in roles : r.id = roleId /\ r.name \in systemRoles
         THEN Refuse("deleteRole", c, 400, "SYSTEM_ROLE_PROTECTED")
       ELSE IF \E ur \in user_roles : ur.role_id = roleId
         THEN Refuse("deleteRole", c, 400, "ROLE_IN_USE")
       ELSE /\ nops < MaxOps
            /\ roles' = {r \in roles : r.id # roleId}
            /\ user_roles' = {ur \in user_roles : ur.role_id # roleId}
            /\ role_permissions' = {rp \in role_permissions : rp.role_id # roleId}
            /\ UNCHANGED <<users, permissions, userSeq>>
            /\ Done("deleteRole", c, 200, <<roleId>>))

\* the ids POST /api/roles hands out. The id of a deleted role is handed out
\* again: no row refers to a deleted id (ON DELETE CASCADE), so the states are
\* those of AUTO_INCREMENT up to the name of the id.
NewRoleIds == (Len(defaultRoles) + 1)..(Len(defaultRoles) + MaxNewRoles)
NewRoleNames == {"auditor", "guest"}

\* POST /api/roles
CreateRole(c, name) ==
  /\ UNCHANGED <<now, pending, client>>
  /\ Route("createRole", c, requireAdmin(authenticateToken(c)),
       IF \E r \in roles : r.name = name
         THEN Refuse("createRole", c, 400, "ROLE_EXISTS")
       ELSE /\ nops < MaxOps
            /\ \E i \in NewRoleIds : \A r \in roles : r.id # i
            /\ LET insertId == CHOOSE i \in NewRoleIds : \A r \in roles : r.id # i
               IN /\ roles' = roles \cup {[id |-> insertId, name |-> name, is_active |-> TRUE]}
                  /\ UNCHANGED <<users, permissions, user_roles, role_permissions, userSeq>>
                  /\ Done("createRole", c, 201, <<insertId>>))

\* the permissions the catalogue requests name: a system permission and one
\* that a single seed role holds
CatalogPermissions ==
  {p.id : p \in {p \in setupPermissions : p.name \in {"users:read", "system:update"}}}
CatalogRoleIds == RoleIds \cup NewRoleIds

NextCatalog ==
  \/ Register
  \/ \E c \in UserIds, name \in NewRoleNames : CreateRole(c, name)
  \/ \E c \in UserIds, userId \in UserIds, roleId \in RoleInputs \cup NewRoleIds :
       AssignRole(c, userId, roleId, NULL)
  \/ \E c \in UserIds, userId \in UserIds, roleId \in RoleInputs \cup NewRoleIds :
       RemoveRole(c, userId, roleId)
  \/ \E c \in UserIds, roleId \in CatalogRoleIds, permissionId \in CatalogPermissions :
       AssignPermission(c, roleId, permissionId, NULL)
  \/ \E c \in UserIds, roleId \in CatalogRoleIds, permissionId \in CatalogPermissions :
       RemovePermission(c, roleId, permissionId)
  \/ \E c \in UserIds, roleId \in CatalogRoleIds : DeactivateRole(c, roleId)
  \/ \E c \in UserIds, permissionId \in CatalogPermissions :
       DeactivatePermission(c, permissionId)
  \/ \E c \in UserIds, roleId \in CatalogRoleIds : DeleteRole(c, roleId)
  \/ \E c \in UserIds, permissionId \in CatalogPermissions : DeletePermission(c, permissionId)

SpecCatalog == InitAdmin /\ [][NextCatalog]_vars

\* ------------------------------------------------- handlers that interleave
\* A handler awaits each pool.execute, so another request can run between
\* its checks and its write. The actions below are the handlers above cut at
\* that await: ...Check is the part up to the last SELECT, and the second
\* action is the INSERT or DELETE with the response.

\* a handler that passed its checks and has its write ahead
Pending(op, c, a, b, expiresAt) ==
  [id |-> CHOOSE i \in 1..MaxPending : \A req \in pending : req.id # i,
   op |-> op, user |-> c, a |-> a, b |-> b, expiresAt |-> expiresAt]

\* the gate called next() and the checks found nothing to refuse
Checked(op, c) ==
  /\ last' = Request(op, c, <<>>, <<>>, TRUE, Passed)
  /\ UNCHANGED <<store, nops>>

\* the write threw (ER_DUP_ENTRY of a UNIQUE KEY, or a FOREIGN KEY that no
\* longer has its row): asyncHandler hands the error to next, and the error
\* handler, which knows no MySQL error, answers 500 without a code
Threw(op, c) ==
  /\ last' = Request(op, c, <<>>, <<>>, TRUE, Responded(500, ""))
  /\ UNCHANGED <<store, nops>>

\* POST /api/users/:id/roles up to the SELECT on user_roles
AssignRoleCheck(c, userId, roleId, expiresAt) ==
  /\ nops < MaxOps
  /\ Cardinality(pending) < MaxPending
  /\ UNCHANGED <<now, client>>
  /\ Route("assignRole", c, checkPermission(authenticateToken(c), "users", "update", TRUE),
       IF ~\E u \in users : u.id = userId
         THEN Refuse("assignRole", c, 404, "USER_NOT_FOUND")
       ELSE IF ~\E r \in roles : r.id = roleId /\ r.is_active
         THEN Refuse("assignRole", c, 404, "ROLE_NOT_FOUND")
       ELSE IF \E ur \in user_roles : ur.user_id = userId /\ ur.role_id = roleId
         THEN Refuse("assignRole", c, 400, "ROLE_ALREADY_ASSIGNED")
       ELSE Checked("assignRole", c))
  /\ pending' = IF last'.out = Passed
                  THEN pending \cup {Pending("assignRole", c, userId, roleId, expiresAt)}
                  ELSE pending

\* POST /api/users/:id/roles from the INSERT on
AssignRoleInsert(req) ==
  /\ req.op = "assignRole"
  /\ pending' = pending \ {req}
  /\ UNCHANGED <<now, client>>
  /\ IF \/ \E ur \in user_roles : ur.user_id = req.a /\ ur.role_id = req.b
        \/ ~\E u \in users : u.id = req.a
        \/ ~\E r \in roles : r.id = req.b
       THEN Threw("assignRole", req.user)
       ELSE /\ user_roles' = user_roles \cup {UserRole(req.a, req.b, req.user, req.expiresAt)}
            /\ UNCHANGED <<users, roles, permissions, role_permissions, userSeq>>
            /\ Done("assignRole", req.user, 201, <<req.a, req.b>>)

\* POST /api/roles/:id/permissions up to the SELECT on role_permissions
AssignPermissionCheck(c, roleId, permissionId, expiresAt) ==
  /\ nops < MaxOps
  /\ Cardinality(pending) < MaxPending
  /\ UNCHANGED <<now, client>>
  /\ Route("assignPermission", c, requireAdmin(authenticateToken(c)),
       IF ~\E r \in roles : r.id = roleId /\ r.is_active
         THEN Refuse("assignPermission", c, 404, "ROLE_NOT_FOUND")
       ELSE IF ~\E p \in permissions : p.id = permissionId /\ p.is_active
         THEN Refuse("assignPermission", c, 404, "PERMISSION_NOT_FOUND")
       ELSE IF \E rp \in role_permissions :
                 rp.role_id = roleId /\ rp.permission_id = permissionId
         THEN Refuse("assignPermission", c, 400, "PERMISSION_ALREADY_ASSIGNED")
       ELSE Checked("assignPermission", c))
  /\ pending' = IF last'.out = Passed
                  THEN pending \cup
                         {Pending("assignPermission", c, roleId, permissionId, expiresAt)}
                  ELSE pending

\* POST /api/roles/:id/permissions from the INSERT on
AssignPermissionInsert(req) ==
  /\ req.op = "assignPermission"
  /\ pending' = pending \ {req}
  /\ UNCHANGED <<now, client>>
  /\ IF \/ \E rp \in role_permissions : rp.role_id = req.a /\ rp.permission_id = req.b
        \/ ~\E r \in roles : r.id = req.a
        \/ ~\E p \in permissions : p.id = req.b
       THEN Threw("assignPermission", req.user)
       ELSE /\ role_permissions' =
                 role_permissions \cup {RolePermission(req.a, req.b, req.user, req.expiresAt)}
            /\ UNCHANGED <<users, roles, permissions, user_roles, userSeq>>
            /\ Done("assignPermission", req.user, 201, <<req.a, req.b>>)

\* DELETE /api/permissions/:id up to the SELECT COUNT(*) on role_permissions
DeletePermissionCheck(c, permissionId) ==
  /\ nops < MaxOps
  /\ Cardinality(pending) < MaxPending
  /\ UNCHANGED <<now, client>>
  /\ Route("deletePermission", c, requireAdmin(authenticateToken(c)),
       IF ~\E p \in permissions : p.id = permissionId
         THEN Refuse("deletePermission", c, 404, "PERMISSION_NOT_FOUND")
       ELSE IF \E p \in permissions : p.id = permissionId /\ p.name \in systemPermissions
         THEN Refuse("deletePermission", c, 400, "SYSTEM_PERMISSION_PROTECTED")
       ELSE IF \E rp \in role_permissions : rp.permission_id = permissionId
         THEN Refuse("deletePermission", c, 400, "PERMISSION_IN_USE")
       ELSE Checked("deletePermission", c))
  /\ pending' = IF last'.out = Passed
                  THEN pending \cup {Pending("deletePermission", c, permissionId, NULL, NULL)}
                  ELSE pending

\* DELETE /api/permissions/:id from the DELETE on: the row goes, and with it
\* every grant that references it (ON DELETE CASCADE)
DeletePermissionDelete(req) ==
  /\ req.op = "deletePermission"
  /\ pending' = pending \ {req}
  /\ UNCHANGED <<now, client>>
  /\ permissions' = {p \in permissions : p.id # req.a}
  /\ role_permissions' = {rp \in role_permissions : rp.permission_id # req.a}
  /\ UNCHANGED <<users, roles, user_roles, userSeq>>
  /\ Done("deletePermission", req.user, 200, <<req.a>>)

\* the requests that race: a role for a user, and the permission that one
\* seed role holds, given to or taken from a role
RaceRoles == {r.id : r \in {r \in setupRoles : r.name \in {"super_admin", "guest"}}}
RacePermissions == {p.id : p \in {p \in setupPermissions : p.name = "system:update"}}

NextRace ==
  \/ Register
  \/ \E c \in UserIds, userId \in UserIds, roleId \in RaceRoles, expiresAt \in ExpiresInputs :
       AssignRoleCheck(c, userId, roleId, expiresAt)
  \/ \E req \in pending : AssignRoleInsert(req)
  \/ \E c \in UserIds, roleId \in RaceRoles, permissionId \in RacePermissions :
       AssignPermissionCheck(c, roleId, permissionId, NULL)
  \/ \E req \in pending : AssignPermissionInsert(req)
  \/ \E c \in UserIds, roleId \in RaceRoles, permissionId \in RacePermissions :
       RemovePermission(c, roleId, permissionId)
  \/ \E c \in UserIds, permissionId \in RacePermissions : DeletePermissionCheck(c, permissionId)
  \/ \E req \in pending : DeletePermissionDelete(req)

SpecRace == InitAdmin /\ [][NextRace]_vars

\* ------------------------------------------- the catalogue and the accounts
\* the requests that create and delete rows, those on users included
NextIntegrity ==
  \/ NextCatalog
  \/ \E c \in UserIds, userId \in UserIds : DeleteUser(c, userId)

SpecIntegrity == InitAdmin /\ [][NextIntegrity]_vars

\* ------------------------------------------------------ grants and revokes
\* the requests that make and revoke grants, on the seeded catalogue: the
\* roles of the gate probes and manager, the role below admin
GrantRoles == RoleInputs \cup {r.id : r \in {r \in setupRoles : r.name = "manager"}}

NextGrants ==
  \/ Register
  \/ \E c \in UserIds, userId \in UserIds, roleId \in GrantRoles :
       AssignRole(c, userId, roleId, NULL)
  \/ \E c \in UserIds, userId \in UserIds, roleId \in GrantRoles :
       RemoveRole(c, userId, roleId)
  \/ \E c \in UserIds, roleId \in RoleInputs, permissionId \in CatalogPermissions :
       AssignPermission(c, roleId, permissionId, NULL)
  \/ \E c \in UserIds, roleId \in RoleInputs, permissionId \in CatalogPermissions :
       RemovePermission(c, roleId, permissionId)

SpecGrants == InitAdmin /\ [][NextGrants]_vars

\* ---------------------------------------------------------- renaming roles
\* PUT /api/roles/:id
UpdateRole(c, roleId, name) ==
  /\ UNCHANGED <<now, pending, client>>
  /\ Route("updateRole", c, requireAdmin(authenticateToken(c)),
       IF ~\E r \in roles : r.id = roleId
         THEN Refuse("updateRole", c, 404, "ROLE_NOT_FOUND")
       ELSE IF /\ \E r \in roles : r.id = roleId /\ r.name # name
               /\ \E r \in roles : r.name = name /\ r.id # roleId
         THEN Refuse("updateRole", c, 400, "ROLE_NAME_EXISTS")
       ELSE /\ nops < MaxOps
            /\ roles' = {IF r.id = roleId THEN [r EXCEPT !.name = name] ELSE r : r \in roles}
            /\ UNCHANGED <<users, permissions, user_roles, role_permissions, userSeq>>
            /\ Done("updateRole", c, 200, <<roleId>>))

\* the roles the requests name (two system roles and one that is not) and
\* the names they are given
RenameRoles == {r.id : r \in {r \in setupRoles : r.name \in {"admin", "user", "guest"}}}
RenameNames == {"member", "user"}

NextRename ==
  \/ Register
  \/ \E c \in UserIds, roleId \in RenameRoles, name \in RenameNames : UpdateRole(c, roleId, name)
  \/ \E c \in UserIds, roleId \in RenameRoles : DeactivateRole(c, roleId)
  \/ \E c \in UserIds, roleId \in RenameRoles : ActivateRole(c, roleId)
  \/ \E c \in UserIds, roleId \in RenameRoles : DeleteRole(c, roleId)

SpecRename == InitAdmin /\ [][NextRename]_vars

\* ------------------------------------------------- the permission catalogue
\* POST /api/permissions, PUT /api/permissions/:id and POST
\* /api/permissions/bulk, cut at the await of each pool.execute. The table has
\* a UNIQUE key on name and none on (resource, action).

\* the ids the INSERT INTO permissions hands out (AUTO_INCREMENT)
NewPermissionIds ==
  (Len(defaultPermissions) + 1)..(Len(defaultPermissions) + MaxNewPermissions)

\* the bodies of the requests: two names for one (resource, action), and one
\* name for two
PermissionBodies ==
  { [name |-> "reports_read", resource |-> "reports", action |-> "read"],
    [name |-> "reports_view", resource |-> "reports", action |-> "read"],
    [name |-> "reports_read", resource |-> "reports", action |-> "view"] }

BulkBodies ==
  { <<[name |-> "reports_read", resource |-> "reports", action |-> "read"],
      [name |-> "reports_view", resource |-> "reports", action |-> "read"]>>,
    <<[name |-> "reports_view", resource |-> "reports", action |-> "read"]>> }

\* SELECT id FROM permissions WHERE name = ? OR (resource = ? AND action = ?)
existingPermissions(body) ==
  {p \in permissions :
     p.name = body.name \/ (p.resource = body.resource /\ p.action = body.action)}

\* the same SELECT with AND id != ?
conflictCheck(body, permissionId) ==
  {p \in existingPermissions(body) : p.id # permissionId}

\* the UNIQUE key of permissions.name refuses the row (ER_DUP_ENTRY)
DupName(name, permissionId) ==
  \E p \in permissions : p.name = name /\ p.id # permissionId

\* INSERT INTO permissions (name, description, resource, action)
InsertPermission(body) ==
  LET insertId == 1 + CHOOSE i \in 0..(Len(defaultPermissions) + MaxNewPermissions) :
                        /\ \A p \in permissions : p.id <= i
                        /\ i = 0 \/ \E p \in permissions : p.id = i
  IN permissions' = permissions \cup
       {[id |-> insertId, name |-> body.name, resource |-> body.resource,
         action |-> body.action, is_active |-> TRUE]}

\* the table has room for one more row within the bound
RoomForPermission ==
  \A p \in permissions : p.id < Len(defaultPermissions) + MaxNewPermissions

\* POST /api/permissions up to the SELECT on permissions
CreatePermissionCheck(c, body) ==
  /\ nops < MaxOps
  /\ Cardinality(pending) < MaxPending
  /\ UNCHANGED <<now, client>>
  /\ Route("createPermission", c, requireAdmin(authenticateToken(c)),
       IF existingPermissions(body) # {}
         THEN Refuse("createPermission", c, 400, "PERMISSION_EXISTS")
       ELSE Checked("createPermission", c))
  /\ pending' = IF last'.out = Passed
                  THEN pending \cup {Pending("createPermission", c, <<body>>, 0, NULL)}
                  ELSE pending

\* POST /api/permissions from the INSERT on
CreatePermissionInsert(req) ==
  /\ req.op = "createPermission"
  /\ pending' = pending \ {req}
  /\ UNCHANGED <<now, client>>
  /\ IF DupName(req.a[1].name, NULL)
       THEN Threw("createPermission", req.user)
       ELSE /\ RoomForPermission
            /\ InsertPermission(req.a[1])
            /\ UNCHANGED <<users, roles, user_roles, role_permissions, userSeq>>
            /\ Done("createPermission", req.user, 201, <<>>)

\* PUT /api/permissions/:id up to the conflict SELECT
UpdatePermissionCheck(c, permissionId, body) ==
  /\ nops < MaxOps
  /\ Cardinality(pending) < MaxPending
  /\ UNCHANGED <<now, client>>
  /\ Route("updatePermission", c, requireAdmin(authenticateToken(c)),
       IF ~\E p \in permissions : p.id = permissionId
         THEN Refuse("updatePermission", c, 404, "PERMISSION_NOT_FOUND")
       ELSE LET old == CHOOSE p \in permissions : p.id = permissionId
            IN IF /\ \/ body.name # old.name
                     \/ body.resource # old.resource
                     \/ body.action # old.action
                  /\ conflictCheck(body, permissionId) # {}
                 THEN Refuse("updatePermission", c, 400, "PERMISSION_CONFLICT")
               ELSE Checked("updatePermission", c))
  /\ pending' = IF last'.out = Passed
                  THEN pending \cup {Pending("updatePermission", c, <<body>>, permissionId, NULL)}
                  ELSE pending

\* PUT /api/permissions/:id from the UPDATE on
UpdatePermissionWrite(req) ==
  /\ req.op = "updatePermission"
  /\ pending' = pending \ {req}
  /\ UNCHANGED <<now, client>>
  /\ IF DupName(req.a[1].name, req.b) /\ \E p \in permissions : p.id = req.b
       THEN Threw("updatePermission", req.user)
       ELSE /\ permissions' =
                 {IF p.id = req.b
                    THEN [p EXCEPT !.name = req.a[1].name, !.resource = req.a[1].resource,
                                   !.action = req.a[1].action]
                    ELSE p : p \in permissions}
            /\ UNCHANGED <<users, roles, user_roles, role_permissions, userSeq>>
            /\ Done("updatePermission", req.user, 200, <<req.b>>)

\* POST /api/permissions/bulk up to its loop
BulkCreateStart(c, bodies) ==
  /\ nops < MaxOps
  /\ Cardinality(pending) < MaxPending
  /\ UNCHANGED <<now, client>>
  /\ Route("bulkCreate", c, requireAdmin(authenticateToken(c)), Checked("bulkCreate", c))
  /\ pending' = IF last'.out = Passed
                  THEN pending \cup {Pending("bulkSelect", c, bodies, 1, NULL)}
                  ELSE pending

\* the loop goes on with the next body, or the handler answers 201
BulkCreateContinue(req, inserted) ==
  IF req.b < Len(req.a)
    THEN /\ pending' = (pending \ {req}) \cup {[req EXCEPT !.op = "bulkSelect", !.b = req.b + 1]}
         /\ last' = Request("bulkCreate", req.user, <<>>, <<>>, TRUE, Passed)
         /\ UNCHANGED nops
    ELSE /\ pending' = pending \ {req}
         /\ Done("bulkCreate", req.user, 201, <<>>)

\* the SELECT of the loop for permissions[i]
BulkCreateSelect(req) ==
  /\ req.op = "bulkSelect"
  /\ UNCHANGED <<store, now, client>>
  /\ IF existingPermissions(req.a[req.b]) # {}
       THEN BulkCreateContinue(req, FALSE)
       ELSE /\ pending' = (pending \ {req}) \cup {[req EXCEPT !.op = "bulkInsert"]}
            /\ last' = Request("bulkCreate", req.user, <<>>, <<>>, TRUE, Passed)
            /\ UNCHANGED nops

\* the INSERT of the loop for permissions[i]; its error is caught and listed
BulkCreateInsert(req) ==
  /\ req.op = "bulkInsert"
  /\ UNCHANGED <<now, client>>
  /\ IF DupName(req.a[req.b].name, NULL)
       THEN /\ UNCHANGED store
            /\ BulkCreateContinue(req, FALSE)
       ELSE /\ RoomForPermission
            /\ InsertPermission(req.a[req.b])
            /\ UNCHANGED <<users, roles, user_roles, role_permissions, userSeq>>
            /\ BulkCreateContinue(req, TRUE)

NextPermissions ==
  \/ \E c \in UserIds, body \in PermissionBodies : CreatePermissionCheck(c, body)
  \/ \E req \in pending : CreatePermissionInsert(req)
  \/ \E c \in UserIds, permissionId \in NewPermissionIds, body \in PermissionBodies :
       UpdatePermissionCheck(c, permissionId, body)
  \/ \E req \in pending : UpdatePermissionWrite(req)
  \/ \E c \in UserIds, bodies \in BulkBodies : BulkCreateStart(c, bodies)
  \/ \E req \in pending : BulkCreateSelect(req)
  \/ \E req \in pending : BulkCreateInsert(req)

SpecPermissions == InitAdmin /\ [][NextPermissions]_vars

\* ------------------------------------------------------------ the client
\* src/client/src/services/api.js: the axios instance api and its response
\* interceptor. A request goes idle -> sent -> resolved or rejected, with
\* refreshing -> sent in between when the interceptor refreshes the token.
\* api(originalRequest) sends the config object the interceptor marked, so
\* the mark _retry is on the config of the error of the second answer.

\* what the server answers a request: success, unauthorized, another error
ServerAnswers == {200, 401, 500}

\* the error handler without the test of originalRequest._retry
onRejectedAlways(req, status, token) ==
  IF status = 401
    THEN IF token
           THEN [req EXCEPT !.status = status, !.retry = TRUE, !.phase = "refreshing",
                            !.refreshes = req.refreshes + 1]
           ELSE [req EXCEPT !.status = status, !.retry = TRUE, !.phase = "rejected"]
    ELSE [req EXCEPT !.status = status, !.phase = "rejected"]

\* the error handler of the response interceptor, up to its await: on a first
\* 401 it marks the request and, with a token stored, posts the refresh;
\* otherwise it shows the error and rejects
onRejected(req, status, token) ==
  IF status = 401 /\ ~req.retry
    THEN IF token
           THEN [req EXCEPT !.status = status, !.retry = TRUE, !.phase = "refreshing",
                            !.refreshes = req.refreshes + 1]
           ELSE [req EXCEPT !.status = status, !.retry = TRUE, !.phase = "rejected"]
    ELSE [req EXCEPT !.status = status, !.phase = "rejected"]

\* api.get / api.post / ...: the request leaves
ClientSend(i) ==
  /\ client.requests[i].phase = "idle"
  /\ client' = [client EXCEPT !.requests[i].phase = "sent", !.requests[i].sends = 1]
  /\ UNCHANGED <<store, now, nops, pending, last>>

\* the server's answer arrives and runs through the response interceptor
ClientAnswer(i, status) ==
  /\ client.requests[i].phase = "sent"
  /\ client' =
       IF status = 200
         THEN [client EXCEPT !.requests[i].phase = "resolved", !.requests[i].status = status]
         ELSE [client EXCEPT !.requests[i] = onRejected(@, status, client.token)]
  /\ UNCHANGED <<store, now, nops, pending, last>>

\* the answer to POST /api/auth/refresh arrives: the new token is stored and
\* the request sent again, or the catch removes the token, redirects to
\* /login and rejects
ClientRefreshed(i, ok) ==
  /\ client.requests[i].phase = "refreshing"
  /\ client' =
       IF ok
         THEN [client EXCEPT !.token = TRUE,
                             !.requests[i].refresh = "ok",
                             !.requests[i].phase = "sent",
                             !.requests[i].sends = @ + 1]
         ELSE [client EXCEPT !.token = FALSE,
                             !.redirected = TRUE,
                             !.requests[i].refresh = "failed",
                             !.requests[i].phase = "rejected"]
  /\ UNCHANGED <<store, now, nops, pending, last>>

\* the page was opened with or without a token from an earlier login
InitClient ==
  /\ users = {[id |-> 1, is_active |-> TRUE]}
  /\ roles = setupRoles
  /\ permissions = setupPermissions
  /\ user_roles = setupUserRoles
  /\ role_permissions = setupRolePermissions
  /\ userSeq = 1
  /\ now = 0
  /\ nops = 0
  /\ pending = {}
  /\ client \in {Browser(token) : token \in BOOLEAN}
  /\ last = Request("setup", NoUser, <<>>, <<>>, TRUE, NoResponse)

NextClient ==
  \/ \E i \in 1..MaxRequests : ClientSend(i)
  \/ \E i \in 1..MaxRequests, status \in ServerAnswers : ClientAnswer(i, status)
  \/ \E i \in 1..MaxRequests, ok \in BOOLEAN : ClientRefreshed(i, ok)

SpecClient == InitClient /\ [][NextClient]_vars

\* ------------------------------------------------------------ properties
GateOps == {"checkPermission", "checkAnyPermission", "checkRole", "checkAnyRole"}
PermissionGates == {"checkPermission", "checkAnyPermission"}
RoleGates == {"checkRole", "checkAnyRole"}

Range(q) == {q[i] : i \in 1..Len(q)}

\* expiresAt is in the past / is null or still ahead
Expired(e) == e # NULL /\ e < now
Unexpired(e) == e = NULL \/ e > now

Allowed == last.out.nextCalls = 1 /\ last.out.responses = 0
Refused == last.out.nextCalls = 0 /\ last.out.responses = 1

Matches(p, pair) == p.resource = pair.resource /\ p.action = pair.action

\* Q holds of every chain user -> user-role grant -> role -> role-permission
\* grant -> permission that ends in a permission for pair
EveryChain(user, pair, Q(_, _, _, _)) ==
  \A ur \in user_roles : ur.user_id = user =>
    \A r \in roles : r.id = ur.role_id =>
      \A rp \in role_permissions : rp.role_id = r.id =>
        \A p \in permissions : (p.id = rp.permission_id /\ Matches(p, pair)) =>
          Q(ur, r, rp, p)

SomeChain(user, pair, Q(_, _, _, _)) ==
  \E ur \in user_roles, r \in roles, rp \in role_permissions, p \in permissions :
    /\ ur.user_id = user /\ r.id = ur.role_id /\ rp.role_id = r.id
    /\ p.id = rp.permission_id /\ Matches(p, pair)
    /\ Q(ur, r, rp, p)

HasExpiredGrant(ur, r, rp, p) == Expired(ur.expires_at) \/ Expired(rp.expires_at)
RoleInactive(ur, r, rp, p) == ~r.is_active
AllRowsActive(ur, r, rp, p) == ur.is_active /\ r.is_active /\ rp.is_active /\ p.is_active
NeverExpires(ur, r, rp, p) ==
  AllRowsActive(ur, r, rp, p) /\ ur.expires_at = NULL /\ rp.expires_at = NULL
GrantsLive(ur, r, rp, p) ==
  /\ ur.is_active /\ rp.is_active /\ p.is_active
  /\ Unexpired(ur.expires_at) /\ Unexpired(rp.expires_at)

\* C1: a user all of whose chains to (resource, action) contain a grant whose
\* expiresAt is in the past is denied by checkPermission(resource, action) and
\* by checkAnyPermission([(resource, action)]); the expired rows are the ones
\* still in the store.
C1_ExpiredGrantDenied ==
  ( /\ last.op \in PermissionGates
    /\ last.user # NoUser
    /\ Len(last.pairs) = 1
    /\ EveryChain(last.user, last.pairs[1], HasExpiredGrant) )
  => last.out.nextCalls = 0

\* C2: when every user-role grant that links the user to the role named R has
\* expiresAt in the past, checkRole(R) and checkAnyRole([R]) deny the user,
\* the grant row being still in user_roles.
C2_ExpiredRoleGrantDenied ==
  ( /\ last.op \in RoleGates
    /\ last.user # NoUser
    /\ Len(last.names) = 1
    /\ \E ur \in user_roles, r \in roles :
          ur.user_id = last.user /\ r.id = ur.role_id /\ r.name = last.names[1]
    /\ \A ur \in user_roles, r \in roles :
          (ur.user_id = last.user /\ r.id = ur.role_id /\ r.name = last.names[1])
             => Expired(ur.expires_at) )
  => last.out.nextCalls = 0

\* C3: a user who reaches (resource, action) only through roles whose own
\* is_active is false is denied by checkPermission(resource, action).
C3_InactiveRoleDenied ==
  ( /\ last.op = "checkPermission"
    /\ last.user # NoUser
    /\ EveryChain(last.user, last.pairs[1], RoleInactive) )
  => last.out.nextCalls = 0

\* C4: a deactivated target confers nothing: the role gates deny when every
\* role named in the request is inactive, and the permission gates deny when
\* every permission row for the requested pairs is inactive, whatever the
\* grant rows say.
C4_InactiveTargetDenied ==
  /\ ( /\ last.op \in RoleGates
       /\ \A r \in roles : r.name \in Range(last.names) => ~r.is_active )
     => Refused
  /\ ( /\ last.op \in PermissionGates
       /\ \A p \in permissions :
            (\E i \in 1..Len(last.pairs) : Matches(p, last.pairs[i])) => ~p.is_active )
     => Refused

\* checkPermission has denied user 1, who holds live grants all the way to
\* profile:read and whose store answered, because the permission is inactive
C4_Witness ==
  /\ last.op = "checkPermission"
  /\ last.dbOk
  /\ last.out.status = 403
  /\ \E p \in permissions : Matches(p, last.pairs[1]) /\ ~p.is_active
  /\ \E ur \in user_roles, rp \in role_permissions, p \in permissions :
        /\ ur.user_id = last.user /\ rp.role_id = ur.role_id
        /\ p.id = rp.permission_id /\ Matches(p, last.pairs[1])
        /\ ur.is_active /\ rp.is_active
        /\ Unexpired(ur.expires_at) /\ Unexpired(rp.expires_at)

\* C5: a user with no active user-role grant is denied by checkPermission for
\* every (resource, action): 403 when the store answers.
C5_NoGrantNoPermission ==
  ( /\ last.op = "checkPermission"
    /\ last.user # NoUser
    /\ \A ur \in user_roles : ur.user_id = last.user => ~ur.is_active )
  => /\ Refused
     /\ last.dbOk => last.out.status = 403

\* a registered user without any grant was answered 403 while other users hold
\* the permission
C5_Witness ==
  /\ last.op = "checkPermission"
  /\ last.user # NoUser
  /\ last.dbOk
  /\ \A ur \in user_roles : ur.user_id # last.user
  /\ \E other \in UserIds : other # last.user /\
        PermissionQuery(other, last.pairs) # {}
  /\ last.out.status = 403

\* C6: with an active grant to an active role that has an active grant to an
\* active permission (resource, action), both grants with expiresAt = null,
\* checkPermission(resource, action) calls next and sends nothing, at any
\* time, whenever the store answers the query.
C6_NullExpiryAllowed ==
  ( /\ last.op = "checkPermission"
    /\ last.user # NoUser
    /\ last.dbOk
    /\ SomeChain(last.user, last.pairs[1], NeverExpires) )
  => Allowed

\* the clock has moved on and a user other than the seeded one was let through
C6_Witness ==
  /\ last.op = "checkPermission"
  /\ last.user # 1
  /\ last.dbOk
  /\ now > 0
  /\ SomeChain(last.user, last.pairs[1], NeverExpires)
  /\ Allowed

HoldsRole(user, roleId) ==
  \E ur \in user_roles, r \in roles :
    /\ ur.user_id = user /\ ur.role_id = roleId /\ r.id = roleId
    /\ ur.is_active /\ r.is_active /\ Unexpired(ur.expires_at)

RoleGrants(roleId, pair) ==
  \E rp \in role_permissions, p \in permissions :
    /\ rp.role_id = roleId /\ p.id = rp.permission_id /\ Matches(p, pair)
    /\ rp.is_active /\ p.is_active /\ Unexpired(rp.expires_at)

\* C7: when role A grants P and role B grants Q (all rows active, unexpired)
\* and user U holds both, checkPermission allows U for P and for Q: right
\* after the second of the two assignments, whichever it was, and at every
\* later check while the rows stand.
C7_Union ==
  \A U \in UserIds, A \in RoleIds, B \in RoleIds, P \in ProbePairs, Q \in ProbePairs :
    ( /\ A # B
      /\ HoldsRole(U, A) /\ HoldsRole(U, B)
      /\ RoleGrants(A, P) /\ RoleGrants(B, Q) )
    => /\ ( last.op = "assignRole" /\ last.out.status = 201 /\ last.audit = <<U, B>> )
            => /\ checkPermission(U, P.resource, P.action, TRUE) = Passed
               /\ checkPermission(U, Q.resource, Q.action, TRUE) = Passed
       /\ ( /\ last.op = "checkPermission" /\ last.user = U /\ last.dbOk
            /\ last.pairs[1] \in {P, Q} )
            => Allowed

\* user U held A (which grants P and not Q) and has just been assigned B
\* (which grants Q)
C7_Witness ==
  \E U \in UserIds, A \in RoleIds, B \in RoleIds, P \in ProbePairs, Q \in ProbePairs :
    /\ A # B /\ P # Q
    /\ last.op = "assignRole" /\ last.out.status = 201 /\ last.audit = <<U, B>>
    /\ HoldsRole(U, A) /\ HoldsRole(U, B)
    /\ RoleGrants(A, P) /\ ~RoleGrants(A, Q) /\ RoleGrants(B, Q)
    /\ U # 1

\* C8: for every authenticated user and list L, the empty list included,
\* checkAnyPermission(L) allows iff checkPermission allows one of its pairs,
\* and otherwise ends in the Forbidden denial (the store answering).
C8_AnyIsOr ==
  ( last.op = "checkAnyPermission" /\ last.user # NoUser /\ last.dbOk )
  => LET some == \E i \in 1..Len(last.pairs) :
                   checkPermission(last.user, last.pairs[i].resource,
                                   last.pairs[i].action, TRUE) = Passed
     IN /\ Allowed <=> some
        /\ ~some => (Refused /\ last.out.status = 403 /\ last.out.required = last.pairs)

\* what the gate's query returned
GateRows ==
  IF last.op \in PermissionGates
    THEN PermissionQuery(last.user, last.pairs)
    ELSE RoleQuery(last.user, last.names)
GateArgs == IF last.op \in PermissionGates THEN last.pairs ELSE last.names
\* the query was run and the store returned its rows
GateAnswered == last.user # NoUser /\ last.dbOk /\ Len(GateArgs) > 0

C10_OneOutcome ==
  [][ /\ last'.op \in GateOps =>
           \/ (last'.out.nextCalls = 1 /\ last'.out.responses = 0)
           \/ (last'.out.nextCalls = 0 /\ last'.out.responses = 1)
      /\ last'.out.nextCalls = 0 => store' = store ]_vars

\* the store failed the query of checkRole: one response, 500, and no next
C10_Witness ==
  /\ last.op = "checkRole"
  /\ ~last.dbOk
  /\ last.out.status = 500
  /\ last.out.nextCalls = 0
  /\ last.out.responses = 1

\* C11: every 403 answered to an authenticated user, by a gate or by a
\* handler's own access check, has its security event recorded with the
\* user's id and what was asked for.
C11_DenialRecorded ==
  ( /\ last.user # NoUser
    /\ last.out.responses = 1
    /\ last.out.status = 403 )
  => last.out.logged

\* C12: an authenticated active user U is not answered 403 on GET /users/U
\* nor on PUT /users/U, whatever grants U holds.
C12_OwnRecord ==
  [][ \A U \in UserIds :
        ( /\ authenticateToken(U) # NoUser
          /\ \/ GetUser(U, U)
             \/ \E hasName \in BOOLEAN, isActive \in IsActiveInputs :
                  UpdateUser(U, U, hasName, isActive) )
        => last'.out.status # 403 ]_vars

\* C13: no request issued by user U removes U's users row or clears its
\* is_active: the row of an active requester is the same after the request.
C13_NoSelfLockout ==
  [][ \A u \in users :
        ( u.is_active /\ last'.user = u.id /\ last'.out.responses = 1 )
        => u \in users' ]_vars

\* the handler behind the gate runs for caller c
ReachesHandler(c, gate) == authenticateToken(c) # NoUser /\ gate.nextCalls = 1
CanUpdateUsers(c) ==
  ReachesHandler(c, checkPermission(authenticateToken(c), "users", "update", TRUE))
IsAdmin(c) == ReachesHandler(c, requireAdmin(authenticateToken(c)))

HasUserRole(userId, roleId) ==
  \E ur \in user_roles : ur.user_id = userId /\ ur.role_id = roleId
HasRolePermission(roleId, permissionId) ==
  \E rp \in role_permissions : rp.role_id = roleId /\ rp.permission_id = permissionId
RoleActive(roleId) == \E r \in roles : r.id = roleId /\ r.is_active
PermissionActive(permissionId) == \E p \in permissions : p.id = permissionId /\ p.is_active

C15_RaceConflict ==
  [][ /\ \A userId \in UserIds, roleId \in RoleIds :
           Cardinality({ur \in user_roles' :
                          ur.user_id = userId /\ ur.role_id = roleId}) <= 1
      /\ \A req \in pending :
           ( /\ req.op = "assignRole"
             /\ HasUserRole(req.a, req.b)
             /\ AssignRoleInsert(req) )
           => /\ user_roles' = user_roles
              /\ last'.out.code = "ROLE_ALREADY_ASSIGNED" ]_vars

\* C17: a permission is never deleted while a role-permission grant
\* references it, so no grant row disappears in a permission deletion,
\* however the deletion interleaves with an assignment of the permission.
C17_NoGrantDestroyed ==
  [][ ( last'.op = "deletePermission" /\ last'.out.status = 200 )
      => /\ role_permissions \subseteq role_permissions'
         /\ \A p \in permissions \ permissions' :
              ~\E rp \in role_permissions : rp.permission_id = p.id ]_vars

\* the names the specification protects
SeedRoleNames == {"super_admin", "admin", "manager", "user", "guest"}
ProtectedPermissionNames == {"users:read", "users:update", "roles:read", "permissions:read"}

PermissionNamed(permissionId, names) ==
  \E p \in permissions : p.id = permissionId /\ p.name \in names
RoleNamed(roleId, names) == \E r \in roles : r.id = roleId /\ r.name \in names
AllNames == {r.name : r \in roles} \cup {p.name : p \in permissions}

\* C16: deleting a permission that is not a system permission is refused
\* with PERMISSION_IN_USE, the store unchanged, while a role-permission grant
\* references it; once no grant references it the delete removes the
\* permission row and nothing else.
C16_InUseThenDeleted ==
  [][ last'.op = "deletePermission" =>
        \A c \in UserIds, permissionId \in PermissionIds :
          ( /\ last'.user = c
            /\ IsAdmin(c)
            /\ PermissionNamed(permissionId, AllNames \ ProtectedPermissionNames)
            /\ DeletePermission(c, permissionId) )
          => IF \E rp \in role_permissions : rp.permission_id = permissionId
               THEN last'.out.code = "PERMISSION_IN_USE" /\ store' = store
               ELSE /\ last'.out.status = 200
                    /\ permissions' = {p \in permissions : p.id # permissionId}
                    /\ role_permissions' = role_permissions
                    /\ UNCHANGED <<users, roles, user_roles>> ]_vars

\* a permission that the seed had granted to a role has been deleted
C16_Witness ==
  /\ last.op = "deletePermission"
  /\ last.out.status = 200
  /\ \E rp \in setupRolePermissions :
        /\ last.audit = <<rp.permission_id>>
        /\ ~\E p \in permissions : p.id = rp.permission_id
        /\ rp \notin role_permissions

\* C18: a deactivate or delete request for any of the five seed roles leaves
\* the role row as it is, whoever issues it, and is answered
\* SYSTEM_ROLE_PROTECTED when it reaches the handler.
C18_SeedRolesProtected ==
  [][ last'.op \in {"deactivateRole", "deleteRole"} =>
        \A c \in UserIds, roleId \in RoleIds :
          ( /\ last'.user = c
            /\ RoleNamed(roleId, SeedRoleNames)
            /\ DeactivateRole(c, roleId) \/ DeleteRole(c, roleId) )
          => /\ roles' = roles
             /\ IsAdmin(c) => last'.out.code = "SYSTEM_ROLE_PROTECTED" ]_vars

\* C19: a delete request for one of the four system permissions is refused
\* with SYSTEM_PERMISSION_PROTECTED, whether or not a grant references the
\* permission, and leaves the store as it is.
C19_SystemPermissionsKept ==
  [][ last'.op = "deletePermission" =>
        \A c \in UserIds, permissionId \in PermissionIds :
          ( /\ last'.user = c
            /\ IsAdmin(c)
            /\ PermissionNamed(permissionId, ProtectedPermissionNames)
            /\ DeletePermission(c, permissionId) )
          => (last'.out.code = "SYSTEM_PERMISSION_PROTECTED" /\ store' = store) ]_vars

\* the delete of a system permission that no grant references any more was
\* refused as protected
C19_Witness ==
  /\ last.op = "deletePermission"
  /\ last.out.code = "SYSTEM_PERMISSION_PROTECTED"
  /\ \E p \in permissions :
        /\ p.name \in ProtectedPermissionNames
        /\ ~\E rp \in role_permissions : rp.permission_id = p.id

\* C20: a delete request for a role that is not a seed role is carried out
\* also while users hold it: the role row goes, and with it every user-role
\* grant and role-permission grant of the role.
C20_DeleteCascades ==
  [][ last'.op = "deleteRole" =>
        \A c \in UserIds, roleId \in CatalogRoleIds :
          ( /\ last'.user = c
            /\ IsAdmin(c)
            /\ RoleNamed(roleId, AllNames \ SeedRoleNames)
            /\ DeleteRole(c, roleId) )
          => /\ last'.out.status = 200
             /\ ~\E r \in roles' : r.id = roleId
             /\ ~\E ur \in user_roles' : ur.role_id = roleId
             /\ ~\E rp \in role_permissions' : rp.role_id = roleId ]_vars

\* C21: every user-role grant references an existing user and an existing
\* role, and every role-permission grant an existing role and an existing
\* permission, in every state the create, assign, revoke and delete requests
\* lead to.
C21_ReferentialIntegrity ==
  /\ \A ur \in user_roles :
       /\ \E u \in users : u.id = ur.user_id
       /\ \E r \in roles : r.id = ur.role_id
  /\ \A rp \in role_permissions :
       /\ \E r \in roles : r.id = rp.role_id
       /\ \E p \in permissions : p.id = rp.permission_id

\* the seeded administrator, who held grants, has been deleted, and none of
\* its grants is left
C21_Witness ==
  /\ last.op = "deleteUser"
  /\ last.out.status = 200
  /\ \E ur \in setupUserRoles :
        /\ last.audit = <<ur.user_id>>
        /\ ~\E u \in users : u.id = ur.user_id
        /\ ~\E row \in user_roles : row.user_id = ur.user_id

\* C22: in every state the create, bulk-create and update requests lead to,
\* interleaved ones included, no two permission rows share a name and no two
\* share a (resource, action) pair.
C22_PermissionsUnique ==
  \A p \in permissions : \A q \in permissions :
    p.id # q.id =>
      /\ p.name # q.name
      /\ ~(p.resource = q.resource /\ p.action = q.action)

\* what the gates allow each user: the seeded permissions checkPermission lets
\* through and the role names checkRole lets through
AllowedSets ==
  [u \in UserIds |->
     [permissions |->
        {i \in PermissionIds :
           checkPermission(authenticateToken(u), defaultPermissions[i].resource,
                           defaultPermissions[i].action, TRUE).nextCalls = 1},
      roles |->
        {name \in AllNames :
           checkRole(authenticateToken(u), name, TRUE).nextCalls = 1}]]

\* C23: a request to revoke a grant that has no row, from a caller its gate
\* lets through, is answered 404 ASSIGNMENT_NOT_FOUND, leaves the store as it
\* was, and leaves what the gates allow every user as it was.
C23_RevokeMissing ==
  [][ /\ last'.op = "removeRole" =>
           \A c \in UserIds, userId \in UserIds, roleId \in RoleIds :
             ( /\ last'.user = c
               /\ CanUpdateUsers(c)
               /\ ~HasUserRole(userId, roleId)
               /\ RemoveRole(c, userId, roleId) )
             => /\ last'.out.status = 404
                /\ last'.out.code = "ASSIGNMENT_NOT_FOUND"
                /\ store' = store
                /\ AllowedSets' = AllowedSets
      /\ last'.op = "removePermission" =>
           \A c \in UserIds, roleId \in RoleIds, permissionId \in PermissionIds :
             ( /\ last'.user = c
               /\ IsAdmin(c)
               /\ ~HasRolePermission(roleId, permissionId)
               /\ RemovePermission(c, roleId, permissionId) )
             => /\ last'.out.status = 404
                /\ last'.out.code = "ASSIGNMENT_NOT_FOUND"
                /\ store' = store
                /\ AllowedSets' = AllowedSets ]_vars

\* a revoke of a user-role grant that has no row was refused
C23_Witness ==
  /\ last.op = "removeRole"
  /\ last.out.status = 404
  /\ last.out.code = "ASSIGNMENT_NOT_FOUND"
  /\ \E userId \in UserIds, roleId \in RoleIds :
        /\ \E u \in users : u.id = userId
        /\ ~HasUserRole(userId, roleId)

\* C24: a gate check decides on the rows the store holds when it runs.
\* checkPermission and checkRole allow a user only when the store now holds a
\* user-role grant of the user and, for a permission, a role-permission grant
\* of that role (a revoked grant is no basis); and they allow whenever the
\* store now holds such grants with every row active (a completed assignment
\* is seen).
C24_NoCachedAnswer ==
  (last.op \in {"checkPermission", "checkRole"} /\ last.user # NoUser /\ last.dbOk) =>
    /\ (last.op = "checkPermission" /\ Allowed) =>
          \E ur \in user_roles, rp \in role_permissions, p \in permissions :
             /\ ur.user_id = last.user
             /\ rp.role_id = ur.role_id
             /\ rp.permission_id = p.id
             /\ Matches(p, last.pairs[1])
    /\ (last.op = "checkRole" /\ Allowed) =>
          \E ur \in user_roles, r \in roles :
             /\ ur.user_id = last.user
             /\ ur.role_id = r.id
             /\ r.name = last.names[1]
    /\ ( /\ last.op = "checkPermission"
         /\ \E ur \in user_roles, rp \in role_permissions, p \in permissions :
               /\ ur.user_id = last.user /\ ur.is_active
               /\ rp.role_id = ur.role_id /\ rp.is_active
               /\ rp.permission_id = p.id /\ p.is_active
               /\ Matches(p, last.pairs[1]) )
         => Allowed
    /\ ( /\ last.op = "checkRole"
         /\ \E ur \in user_roles, r \in roles :
               /\ ur.user_id = last.user /\ ur.is_active
               /\ ur.role_id = r.id /\ r.is_active
               /\ r.name = last.names[1] )
         => Allowed

\* a seeded role-permission grant was revoked, and checkPermission refuses a
\* user who holds the role and no other role that carries the permission
C24_Witness ==
  /\ last.op = "checkPermission"
  /\ last.user # NoUser
  /\ last.dbOk
  /\ last.out.status = 403
  /\ \E rp \in setupRolePermissions \ role_permissions, p \in permissions :
        /\ rp.permission_id = p.id
        /\ Matches(p, last.pairs[1])
        /\ HasUserRole(last.user, rp.role_id)
        /\ ~HasRolePermission(rp.role_id, rp.permission_id)

\* the user's grants are exactly the seeded, active, never expiring grant of
\* the super_admin role, and the user is active
OnlySuperAdmin(userId) ==
  /\ \E u \in users : u.id = userId /\ u.is_active
  /\ \E ur \in user_roles : ur.user_id = userId
  /\ \A ur \in user_roles :
        ur.user_id = userId =>
          /\ ur.is_active
          /\ ur.expires_at = NULL
          /\ \E r \in roles : r.id = ur.role_id /\ r.name = "super_admin" /\ r.is_active

\* C25: a user whose only role is super_admin is let through by the gate of
\* the routes guarded by requireAdmin, which is checkRole('admin').
C25_SuperAdminPasses ==
  ( /\ last.op = "checkRole"
    /\ last.names = <<"admin">>
    /\ last.dbOk
    /\ OnlySuperAdmin(last.user) )
  => /\ Allowed
     /\ last.out = requireAdmin(last.user)

\* checkRole('admin') or checkRole('super_admin') lets the user through, in a
\* store with these grants
PassesAdminGate(userId, grants) ==
  \E ur \in grants, r \in roles :
     /\ ur.user_id = userId
     /\ ur.is_active
     /\ \E u \in users : u.id = userId /\ u.is_active
     /\ r.id = ur.role_id
     /\ r.is_active
     /\ r.name \in {"admin", "super_admin"}

\* C26: a request issued by a user whom neither checkRole('admin') nor
\* checkRole('super_admin') lets through does not lead to a state where one of
\* them lets that user through.
C26_NoSelfEscalation ==
  [][ \A c \in UserIds :
        (last'.user = c /\ ~PassesAdminGate(c, user_roles))
          => ~PassesAdminGate(c, user_roles') ]_vars

\* the users row of the token's user is there and active
ActiveUser(userId) == \E u \in users : u.id = userId /\ u.is_active

\* C27: a request carrying the token of a user whose row is inactive or gone
\* is answered 401 USER_INVALID, reaches neither gate nor handler and changes
\* nothing; a request carrying the token of a user whose row is active (again)
\* is not answered USER_INVALID.
C27_TokenFollowsUser ==
  [][ \A c \in UserIds :
        last'.user = c =>
          /\ ~ActiveUser(c) =>
                /\ last'.out.status = 401
                /\ last'.out.code = "USER_INVALID"
                /\ last'.out.nextCalls = 0
                /\ last'.out.responses = 1
                /\ store' = store
          /\ ActiveUser(c) => last'.out.code # "USER_INVALID" ]_vars

\* a request with the token of a registered user who was deactivated since
\* was answered USER_INVALID
C27_Witness ==
  /\ last.out.status = 401
  /\ last.out.code = "USER_INVALID"
  /\ \E u \in users : u.id = last.user /\ ~u.is_active

\* the role was seeded under a system name and now carries another name
RenamedSystemRole(roleId) ==
  /\ \E r \in setupRoles : r.id = roleId /\ r.name \in systemRoles
  /\ \E r \in roles : r.id = roleId /\ r.name \notin systemRoles

\* C28: once a system role has been renamed to a name outside the protected
\* list, a request to deactivate or delete it is not refused with
\* SYSTEM_ROLE_PROTECTED: from an administrator the deactivation goes through,
\* and the deletion goes through unless a user holds the role.
C28_RenameUnprotects ==
  [][ /\ last'.op = "deactivateRole" =>
           \A c \in UserIds, roleId \in RoleIds :
             ( /\ last'.user = c
               /\ RenamedSystemRole(roleId)
               /\ DeactivateRole(c, roleId) )
             => /\ last'.out.code # "SYSTEM_ROLE_PROTECTED"
                /\ IsAdmin(c) =>
                     /\ last'.out.status = 200
                     /\ \E r \in roles' : r.id = roleId /\ ~r.is_active
      /\ last'.op = "deleteRole" =>
           \A c \in UserIds, roleId \in RoleIds :
             ( /\ last'.user = c
               /\ RenamedSystemRole(roleId)
               /\ DeleteRole(c, roleId) )
             => /\ last'.out.code # "SYSTEM_ROLE_PROTECTED"
                /\ (IsAdmin(c) /\ ~\E ur \in user_roles : ur.role_id = roleId) =>
                     /\ last'.out.status = 200
                     /\ ~\E r \in roles' : r.id = roleId ]_vars

\* a role seeded under a system name has been deleted
C28_Witness ==
  /\ last.op = "deleteRole"
  /\ last.out.status = 200
  /\ \E r \in setupRoles :
        /\ r.name \in systemRoles
        /\ last.audit = <<r.id>>
        /\ ~\E row \in roles : row.id = r.id

\* C29: GET /users/:id from a caller whom checkPermission('users', 'read')
\* lets through, for the id of an existing user, the caller's own or not, is
\* answered 200 with the record and not 403 ACCESS_DENIED.
C29_ReadAnyUser ==
  [][ last'.op = "getUser" =>
        \A c \in UserIds, userId \in UserIds :
          ( /\ last'.user = c
            /\ ReachesHandler(c, checkPermission(authenticateToken(c), "users", "read", TRUE))
            /\ \E u \in users : u.id = userId
            /\ GetUser(c, userId) )
          => /\ last'.out.code # "ACCESS_DENIED"
             /\ last'.out.status = 200 ]_vars

\* C30: for every request of the api client the interceptor posts at most
\* one refresh and the request is sent at most twice; a 401 to the request
\* sent again is rejected to the caller without another refresh; and a
\* refresh that fails is rejected to the caller with the stored token removed.
C30_InterceptorStops ==
  [][ \A i \in 1..MaxRequests :
        LET req == client.requests[i]
            after == client'.requests[i]
        IN /\ after.refreshes <= 1
           /\ after.sends <= 2
           /\ (req.phase = "sent" /\ req.sends = 2 /\ after.phase # "sent" /\ after.status = 401)
                => (after.phase = "rejected" /\ after.refreshes = req.refreshes)
           /\ (req.phase = "refreshing" /\ after.refresh = "failed")
                => (after.phase = "rejected" /\ ~client'.token) ]_vars

\* a request was answered 401, the token refreshed, the request sent again
\* and answered 401 again, and it was rejected
C30_Witness ==
  \E i \in 1..MaxRequests :
     /\ client.requests[i].sends = 2
     /\ client.requests[i].refreshes = 1
     /\ client.requests[i].refresh = "ok"
     /\ client.requests[i].status = 401
     /\ client.requests[i].phase = "rejected"

====
